---- MODULE Spec2Model ----
(***************************************************************************)
(* Session state machine of the Rosalind editor userscript.                *)
(*                                                                         *)
(* The model follows the head revision of the Editor controller            *)
(* (src/src/editor.ts lines 1-470), the bootstrap (src/unnamed/part_004    *)
(* lines 24-84), the two runners and the store.  The Problem class and the *)
(* Button wrapper are imported by the controller but are not part of the   *)
(* source tree; they are modelled from the specification (section 4.3).    *)
(*                                                                         *)
(* Time is in milliseconds, as Date.now() is.  A page is one browser       *)
(* document: Reload discards every in-memory field and runs main() again;  *)
(* the store, the clock and the host site survive.                         *)
(***************************************************************************)
EXTENDS Integers, Sequences, FiniteSets, TLC

VARIABLES
    \* persistent store (DB, one record per problem)
    dbLanguage,      \* LANGUAGE_PREFERENCE: "none" | "python" | "javascript"
    dbCode,          \* CODE[language]: "none" | "blank" | "text"
    dbStart,         \* START_TIMESTAMP in ms, NoTimestamp when null/absent
    record,          \* the localStorage item of the problem, as stored
    elsewhere,       \* the localStorage item of another problem
    status,          \* the status indicator: "loading" | "ready" | "error"
    overlay,         \* the loading overlay over the surface is shown
    \* environment
    now,             \* Date.now()
    solvedSignal,    \* host page shows the success label
    cooldownSignal,  \* host page shows the "please wait" element
    \* Problem (session state machine)
    waiting,         \* cooldown state as last observed by the Problem
    \* Editor and page
    view,            \* editing surface: [doc, editable]
    output,          \* transcript: sequence of [text, type] lines
    runBtn, submitBtn, startBtn,   \* "enabled" | "disabled" | "loading"
    langDisabled,    \* languageSelector.disabled
    timerInterval,   \* Editor.timerInterval holds the handle of an interval
    liveTimers,      \* countdown intervals installed in the page and not cleared
    waitInterval,    \* cooldown poll interval installed
    dataset,         \* this.dataset has been fetched
    initialized,     \* runner.initialized, per language
    bound,           \* the dataset bound by runner.init, per language
    console,         \* the functions installed as console.log/error/warn
    starts,          \* start() calls suspended at an await
    resets,          \* language-switch reset() calls suspended at initRunner:
                     \* the this.dataset each one passed to runner.init
    runs,            \* run() calls suspended in the user's code: [lang, original]
    submitted,       \* form.submit() calls made by this page
    payload,         \* text of the file last handed to the host form
    \* bootstrap (main)
    loading,         \* the full-page loading overlay is shown
    attempts,        \* lookups of the dataset link made by getDatasetDownloadLink
    mainPc           \* main(): "lookup" | "init" | "done" | "rejected"

vars == <<dbLanguage, dbCode, dbStart, record, status, overlay, now, solvedSignal, cooldownSignal,
          waiting, view, output, runBtn, submitBtn, startBtn,
          langDisabled, timerInterval, liveTimers, waitInterval, dataset, initialized,
          bound, console, starts, resets, runs, submitted, payload,
          loading, attempts, mainPc, elsewhere>>

storeVars == <<dbLanguage, dbCode, dbStart, record>>
surfaceVars == <<status, overlay>>
timerVars == <<timerInterval, liveTimers>>
envVars == <<now, solvedSignal, cooldownSignal>>
buttonVars == <<runBtn, submitBtn, startBtn, langDisabled>>
asyncVars == <<starts, resets, runs>>
runnerVars == <<initialized, bound, console>>
bootVars == <<loading, attempts, mainPc>>

-----------------------------------------------------------------------------
(* Program constants *)

Window == 300
MsPerSecond == 1000
NoTimestamp == -1

Languages == {"python", "javascript"}

(* Bounds of the model *)

ClockStep == 150000
MaxClock == 2
MaxLog == 3
MaxErrors == 1
MaxStarts == 1
MaxResets == 1
MaxRuns == 2
MaxInFlight == 2
MaxSubmits == 2
MaxLines == 5
MaxData == 3
MaxPath == 2

WindowMs == Window * MsPerSecond
MaxNow == MaxClock * ClockStep

-----------------------------------------------------------------------------
(* Transcript lines.  A text is a sequence of tokens; the tokens below are   *)
(* the ones the controller looks for, whitespace, and markup; every other    *)
(* token is a run of visible characters.                                     *)

RUN == ">>> Running code..."
DONE == ">>> Done."
RES == "Result:"
SP == " "
NL == "\n"
TAG == "<html>"
COMMA == ","
TAB == "\t"
Whitespace == {SP, NL, TAB}

Line(text, type) == [text |-> text, type |-> type]

\* Node.textContent of an element whose innerHTML was set to text
TextContent(text) == SelectSeq(text, LAMBDA t : t # TAG)

\* Editor.addOutput: a new line at the end of the output element
AddOutput(log, text, type) == Append(log, Line(TextContent(text), type))

Includes(text, tok) == \E i \in 1..Len(text) : text[i] = tok

StartsWith(text, tok) == Len(text) > 0 /\ text[1] = tok

RECURSIVE TrimStart(_)
TrimStart(text) ==
    IF text # <<>> /\ Head(text) \in Whitespace THEN TrimStart(Tail(text)) ELSE text

RECURSIVE TrimEnd(_)
TrimEnd(text) ==
    IF text # <<>> /\ text[Len(text)] \in Whitespace
    THEN TrimEnd(SubSeq(text, 1, Len(text) - 1))
    ELSE text

\* String.prototype.trim
Trim(text) == TrimEnd(TrimStart(text))

\* Array.prototype.join("\n")
RECURSIVE Join(_)
Join(texts) ==
    IF texts = <<>> THEN <<>>
    ELSE IF Len(texts) = 1 THEN texts[1]
    ELSE texts[1] \o <<NL>> \o Join(Tail(texts))

\* a scan that stops at the first start marker instead of the last
FindFirstStart(lines, i) ==
    LET S == {j \in 1..i : Includes(lines[j].text, RUN)}
    IN  IF S = {} THEN 0 ELSE CHOOSE j \in S : \A k \in S : j <= k

\* backward scan for the last start marker; 0 stands for startIndex -1
RECURSIVE FindStart(_, _)
FindStart(lines, i) ==
    IF i < 1 THEN 0
    ELSE IF Includes(lines[i].text, RUN) THEN i
    ELSE FindStart(lines, i - 1)

\* forward scan collecting the texts up to the end marker
RECURSIVE CollectFrom(_, _)
CollectFrom(lines, i) ==
    IF i > Len(lines) THEN <<>>
    ELSE IF Includes(lines[i].text, DONE) THEN <<>>
    ELSE IF lines[i].type # "error" /\ ~StartsWith(lines[i].text, RES)
         THEN <<lines[i].text>> \o CollectFrom(lines, i + 1)
         ELSE CollectFrom(lines, i + 1)

\* an extraction that keeps every line after the start marker
getLastOutputUnfiltered(lines) ==
    LET startIndex == FindStart(lines, Len(lines))
    IN  IF startIndex = 0 THEN <<>>
        ELSE Trim(Join([k \in 1..(Len(lines) - startIndex) |-> lines[startIndex + k].text]))

getLastOutput(lines) ==
    LET startIndex == FindStart(lines, Len(lines))
    IN  IF startIndex = 0 THEN <<>>
        ELSE Trim(Join(CollectFrom(lines, startIndex + 1)))

-----------------------------------------------------------------------------
(* Skeletons *)

\* String.prototype.split("\n")[0]
RECURSIVE FirstLine(_)
FirstLine(text) ==
    IF text = <<>> \/ Head(text) = NL THEN <<>>
    ELSE <<Head(text)>> \o FirstLine(Tail(text))

\* the skeleton texts: by language, and by the separator the parsing
\* scaffold splits on; the last of each language has no scaffold
Scaffold(l, separator) ==
    IF l = "javascript"
    THEN IF separator = TAB THEN "js: line.split('\\t')" ELSE "js: line.split(',')"
    ELSE IF separator = TAB THEN "py: read_csv(sep='\\t')" ELSE "py: read_csv(sep=',')"

Plain(l) == IF l = "javascript" THEN "js: no scaffold" ELSE "py: no scaffold"

\* a selection that looks for the comma first
getSkeletonCommaFirst(l) ==
    LET firstLine == FirstLine(Trim(bound[l]))
    IN  IF Includes(firstLine, COMMA) THEN Scaffold(l, COMMA)
        ELSE IF Includes(firstLine, TAB) THEN Scaffold(l, TAB)
        ELSE Plain(l)

\* the skeleton of language l for the dataset text
Skeleton(l, text) ==
    LET firstLine == FirstLine(Trim(text))
        hasCommas == Includes(firstLine, COMMA)
        hasTabs == Includes(firstLine, TAB)
    IN  IF hasCommas \/ hasTabs
        THEN Scaffold(l, IF hasTabs THEN TAB ELSE COMMA)
        ELSE Plain(l)

\* runner.getSkeleton of the runner of language l
getSkeleton(l) == Skeleton(l, bound[l])

-----------------------------------------------------------------------------
(* Store and Problem *)

\* Editor.language getter: DB.get(["LANGUAGE_PREFERENCE"]) ?? "python"
language == IF dbLanguage = "none" THEN "python" ELSE dbLanguage

\* doc ?? defaultDocs[language] for the saved code of the current language
SavedOrPlaceholder == IF dbCode[language] = "none" THEN "placeholder" ELSE dbCode[language]

\* a reset() that takes the skeleton of the runner of the other language
SavedOrOtherSkeleton ==
    IF dbCode[language] # "none" THEN dbCode[language]
    ELSE IF language = "javascript" THEN Plain("python") ELSE Plain("javascript")

\* code ?? runner.getSkeleton() for the current language
SavedOrSkeleton == IF dbCode[language] = "none" THEN getSkeleton(language) ELSE dbCode[language]

\* the same once the runners are bound as b
SavedOrSkeletonWith(b) ==
    IF dbCode[language] = "none" THEN Skeleton(language, b[language]) ELSE dbCode[language]

\* Problem.isSolved
isSolved == solvedSignal

\* Problem.isWaiting
isWaiting == ~isSolved /\ waiting

\* Problem.isReady
isReady == ~waiting

\* a start timestamp is persisted and less than one window old
WindowOpen == dbStart # NoTimestamp /\ now - dbStart < WindowMs

\* Problem.isStarted
isStarted == ~isSolved /\ ~waiting /\ WindowOpen

\* a remaining time that is not derived from the clock
remainingSecondsAtStart == IF dbStart = NoTimestamp THEN 0 ELSE Window

\* Problem.remainingSeconds
remainingSeconds ==
    IF dbStart = NoTimestamp THEN 0
    ELSE LET left == Window - ((now - dbStart) \div MsPerSecond)
         IN  IF left < 0 THEN 0 ELSE left

\* the state of the session state machine
SessionState ==
    IF isSolved THEN "Solved"
    ELSE IF waiting THEN "Waiting"
    ELSE IF WindowOpen THEN "Started"
    ELSE "NotStarted"

-----------------------------------------------------------------------------
(* Helpers on sequences of suspended calls *)

\* the calls of start(), reset() and run() that are suspended
InFlight == Len(starts) + Len(resets) + Len(runs)

RemoveAt(s, i) == SubSeq(s, 1, i - 1) \o SubSeq(s, i + 1, Len(s))

\* the number of error lines among ls
ErrorLines(ls) == Cardinality({i \in 1..Len(ls) : ls[i].type = "error"})

\* the transcript has room for the lines ls within the bounds of the model
Room(ls) ==
    /\ Len(output) + Len(ls) <= MaxLog
    /\ ErrorLines(output) + ErrorLines(ls) <= MaxErrors

\* Button.enable / Button.disable / Button.loading: the state they leave
Enabled == "enabled"
Disabled == "disabled"
Loading == "loading"

\* a click reaches the listener only on a button that is not disabled
Clickable(btn) == btn = Enabled

\* a stopTimer that forgets the handle and leaves the interval installed
clearIntervalLeaves(held, live) == live

\* stopTimer, lines 235-238: clearInterval on the handle held, if any; the
\* intervals left installed
clearInterval(held, live) == IF held THEN live - 1 ELSE live

\* Editor.stopTimer: the interval it leaves installed, and a stopTimer that
\* leaves the interval as it finds it
StopTimerKeeps == timerInterval
StopTimer == FALSE

\* Problem.reset: the START_TIMESTAMP it leaves in the store
ProblemReset == NoTimestamp

\* Problem.tick: the cooldown state after one more look at the host page
ProblemTick == cooldownSignal

-----------------------------------------------------------------------------
(* Messages the controller and the runners write to the transcript *)

MsgSolved == Line(<<"Problem solved! The editor is in read-only mode.">>, "success")
MsgWait == Line(<<"Please wait before re-submitting again.">>, "plain")
MsgLoaded == Line(<<"Dataset loaded! Ready to analyze.">>, "plain")
MsgTimeUp == Line(<<"Time's up! Please 'start' to try again.">>, "error")
MsgNotStarted == Line(<<"Please start before running.">>, "error")
MsgNothing == Line(<<"Nothing to run...">>, "error")
MsgNoOutput == Line(<<"No output to submit. Run your code first.">>, "error")
MsgNoForm == Line(<<"Failed to submit: Submission form or file input not found">>, "error")
MsgSubmitted == Line(<<"Output submitted successfully!">>, "plain")
MsgJsNotInit == Line(<<"JavaScript runner not initialized. Please wait...">>, "error")
MsgPyNotInit == Line(<<"Python not loaded yet. Please wait...">>, "error")
MsgStart == Line(<<RUN>>, "success")
MsgDone == Line(<<DONE>>, "success")
MsgPrinted == Line(<<"stdout">>, "plain")
MsgPyPrinted == Line(<<RES, SP, "stdout", NL>>, "plain")
MsgFailed == Line(<<"Error: uncaught">>, "error")
MsgWarned == Line(<<"warning">>, "plain")
MsgErrored == Line(<<"stderr">>, "error")
MsgResult == Line(<<RES, SP, "value">>, "plain")

\* the lines of a sequence appended through addOutput, in order
RECURSIVE AddAll(_, _)
AddAll(log, ls) ==
    IF ls = <<>> THEN log
    ELSE AddAll(AddOutput(log, Head(ls).text, Head(ls).type), Tail(ls))

\* a user's program, by what it does when it is run: writes to the standard
\* output (console.log), warns (console.warn), writes to the standard error
\* (console.error), returns a value, throws
Programs ==
    [logs : BOOLEAN, warnings : BOOLEAN, errors : BOOLEAN,
     result : BOOLEAN, throws : BOOLEAN]

Prints ==
    [logs |-> TRUE, warnings |-> FALSE, errors |-> FALSE,
     result |-> FALSE, throws |-> FALSE]

Fails ==
    [logs |-> TRUE, warnings |-> FALSE, errors |-> FALSE,
     result |-> FALSE, throws |-> TRUE]

\* the programs run on the page
Behaviours == {Prints, Fails}

\* an item that is yielded only under a condition
When(c, ls) == IF c THEN ls ELSE <<>>

\* JavaScriptRunner.run: items yielded before the user's code is awaited
JsBefore == <<MsgStart>>

\* runs that pair every start marker with an end marker
JsAfterPaired(p) == When(p.throws, <<MsgFailed>>) \o <<MsgDone>>

PyAfterUnmarked(p) == <<MsgStart, MsgPyPrinted>>

\* JavaScriptRunner.run: items yielded after the user's code has settled
JsAfter(p) ==
    IF p.throws THEN <<MsgFailed>>
    ELSE When(p.logs, <<MsgPrinted>>) \o When(p.warnings, <<MsgWarned>>)
         \o When(p.errors, <<MsgErrored>>) \o When(p.result, <<MsgResult>>)
         \o <<MsgDone>>

\* PythonRunner.run: nothing is yielded before runPythonAsync settles
PyBefore == <<>>

\* PythonRunner.run: items yielded after runPythonAsync has settled; what
\* Python's warnings print goes to the standard error
PyAfter(p) ==
    IF p.throws THEN <<MsgFailed>>
    ELSE <<MsgStart>> \o When(p.errors \/ p.warnings, <<MsgErrored>>)
         \o When(p.result, <<MsgResult>>) \o When(p.logs, <<MsgPyPrinted>>)
         \o <<MsgDone>>

\* a runner that answers with the start marker before it is initialised
MsgNotInitMarked(l) == MsgStart

\* the one item run() yields on a runner that is not initialised
MsgNotInit(l) == IF l = "javascript" THEN MsgJsNotInit ELSE MsgPyNotInit

RunBefore(l) == IF l = "javascript" THEN JsBefore ELSE PyBefore

RunAfter(l, b) == IF l = "javascript" THEN JsAfter(b) ELSE PyAfter(b)

-----------------------------------------------------------------------------
(* DB: one JSON record per problem in localStorage.  A value is             *)
(* [t, v, f]: its type, its text when primitive, its fields when an object. *)

Empty == [k \in {} |-> k]

JNull == [t |-> "null", v |-> "", f |-> Empty]
JPrim(x) == [t |-> "prim", v |-> x, f |-> Empty]
JObj(fields) == [t |-> "obj", v |-> "", f |-> fields]

\* undefined: a value of the page, never a value of JSON
Undefined == [t |-> "undefined", v |-> "", f |-> Empty]

\* no item under the key; an item that JSON.parse rejects
Absent == [t |-> "absent", v |-> "", f |-> Empty]
Corrupt == [t |-> "corrupt", v |-> "", f |-> Empty]

\* the outcome of a statement that throws a TypeError
Throws == [t |-> "throws", v |-> "", f |-> Empty]

\* obj[k] = x
SetField(fields, k, x) == [y \in (DOMAIN fields) \cup {k} |-> IF y = k THEN x ELSE fields[y]]

\* JSON.parse(JSON.stringify(value)): fields holding undefined are left out
RECURSIVE Stringify(_)
Stringify(j) ==
    IF j.t # "obj" THEN j
    ELSE LET kept == {k \in DOMAIN j.f : j.f[k].t # "undefined"}
         IN  JObj([k \in kept |-> Stringify(j.f[k])])

\* DB.config: localStorage.getItem(rootKey) ?? "{}", parsed; {} when parsing
\* throws
config(item) == IF item.t \in {"absent", "corrupt"} THEN JObj(Empty) ELSE item

\* obj[k] ?? {}
FieldOrEmpty(j, k) ==
    IF j.t = "obj" /\ k \in DOMAIN j.f /\ j.f[k].t # "null" THEN j.f[k] ELSE JObj(Empty)

\* a walk that builds a new object at every level instead of writing into
\* the one that is there
RECURSIVE PutFresh(_, _, _)
PutFresh(j, key, value) ==
    IF j.t # "obj" THEN Throws
    ELSE IF Len(key) = 1 THEN JObj(SetField(Empty, key[1], value))
    ELSE JObj(SetField(Empty, key[1], PutFresh(JObj(Empty), Tail(key), value)))

\* DB.save, lines 83-86: the walk along the key with current[k] ??= {} and
\* the assignment current[last] = value.  The class body is strict code: a
\* property read on null and an assignment to a property of a primitive
\* throw.
RECURSIVE Put(_, _, _)
Put(j, key, value) ==
    IF j.t # "obj" THEN Throws
    ELSE IF Len(key) = 1 THEN JObj(SetField(j.f, key[1], value))
    ELSE LET sub == Put(FieldOrEmpty(j, key[1]), Tail(key), value)
         IN  IF sub.t = "throws" THEN Throws
             ELSE JObj(SetField(j.f, key[1], sub))

\* DB.save(key, value): the item afterwards.  setItemThrows: the storage is
\* unavailable or over its quota.  Whatever is thrown is caught and logged.
save(item, key, value, setItemThrows) ==
    LET new == Put(config(item), key, value)
    IN  IF new.t = "throws" \/ setItemThrows THEN item ELSE Stringify(new)

\* DB.rootKey: the storage prefix and the path of the page; the key of the
\* page, and the key of a page of another problem
rootKey == "rosalind_/problems/dna/"
otherKey == "rosalind_/problems/rna/"

\* localStorage: the items by their keys
localStorage ==
    [k \in {rootKey, otherKey} |-> IF k = rootKey THEN record ELSE elsewhere]

\* localStorage.setItem(k, item)
setItem(storage, k, item) == [storage EXCEPT ![k] = item]

\* DB.save(key, value): the storage afterwards.  A save that throws before
\* or in setItem writes nothing: the item under rootKey is the one it was.
Saved(storage, key, value, setItemThrows) ==
    setItem(storage, rootKey, save(storage[rootKey], key, value, setItemThrows))

\* DB.get, lines 95-98: value = value[k] ?? {} along the key, then
\* value[last]; nothing is caught
RECURSIVE GetIn(_, _)
GetIn(j, key) ==
    IF j.t = "null" THEN Throws
    ELSE IF Len(key) = 1
         THEN IF j.t = "obj" /\ key[1] \in DOMAIN j.f THEN j.f[key[1]] ELSE Undefined
         ELSE GetIn(FieldOrEmpty(j, key[1]), Tail(key))

get(item, key) == GetIn(config(item), key)

\* the item that holds the keys of the page; a cleared key is left out
RecordOf(l, code, start) ==
    LET saved == {x \in Languages : code[x] # "none"}
        f1 == IF l = "none" THEN Empty
              ELSE SetField(Empty, "LANGUAGE_PREFERENCE", JPrim(l))
        f2 == IF saved = {} THEN f1
              ELSE SetField(f1, "CODE", JObj([x \in saved |-> JPrim(code[x])]))
        f3 == IF start = NoTimestamp THEN f2
              ELSE SetField(f2, "START_TIMESTAMP", JPrim(ToString(start)))
    IN  IF DOMAIN f3 = {} THEN Absent ELSE JObj(f3)

-----------------------------------------------------------------------------
(* Runner state *)

\* the dataset of a runner whose init was never called
Unbound == <<"undefined">>

\* the text of the dataset file of the problem
Fetched == <<"x", COMMA, "y">>

\* this.dataset: "" until the file has been fetched
DatasetText(fetched) == IF fetched THEN Fetched ELSE <<>>

\* the console functions of the host page, and the capturing functions a
\* JavaScript run installs
Host == "host"
Capture == "capture"

\* runner.init(d) called and run to its end: the datasets bound afterwards.
\* PythonRunner.init returns at once when it is initialised;
\* JavaScriptRunner.init assigns window.dataset on every call.
BoundAfterInit(l, d) ==
    IF l = "python" /\ initialized["python"] THEN bound
    ELSE [bound EXCEPT ![l] = d]

\* the entry of a run() suspended in the user's code: a JavaScript run
\* keeps the console functions it found
RunEntry(l) == [lang |-> l, original |-> IF l = "javascript" THEN console ELSE "none"]

-----------------------------------------------------------------------------
(* Bootstrap *)

\* Editor.init: setEditor(null, false)
InitialView == [doc |-> "placeholder", editable |-> FALSE, lang |-> language]

\* Editor.setEditor(doc, editable): the new surface has the extension of
\* the language current at the call, and keeps it
SetEditor(doc, editable) ==
    [doc |-> doc, editable |-> editable, lang |-> language]

\* Editor.solved: the surface it loads, and the same surface left editable
SolvedViewEditable == SetEditor(SavedOrPlaceholder, TRUE)
SolvedView == SetEditor(SavedOrPlaceholder, FALSE)

\* Editor.wait: the surface it loads, and the same surface left editable
WaitViewEditable == SetEditor(SavedOrPlaceholder, TRUE)
WaitView == SetEditor(SavedOrPlaceholder, FALSE)

Init ==
    /\ dbLanguage = "none"
    /\ dbCode = [l \in Languages |-> "none"]
    /\ dbStart = NoTimestamp
    /\ record = Absent
    /\ now = 0
    /\ status = "ready"
    /\ overlay = FALSE
    /\ loading = FALSE
    /\ attempts = 1
    /\ mainPc = "done"
    /\ elsewhere = Absent
    /\ solvedSignal \in BOOLEAN
    /\ cooldownSignal \in BOOLEAN
    /\ waiting = cooldownSignal
    /\ runBtn = Disabled
    /\ submitBtn = Disabled
    /\ timerInterval = FALSE
    /\ liveTimers = 0
    /\ dataset = FALSE
    /\ initialized = [l \in Languages |-> FALSE]
    /\ bound = [l \in Languages |-> Unbound]
    /\ console = Host
    /\ starts = <<>>
    /\ resets = <<>>
    /\ runs = <<>>
    /\ submitted = 0
    /\ payload = <<>>
    /\ IF solvedSignal
       THEN /\ langDisabled = TRUE
            /\ startBtn = Disabled
            /\ view = SolvedView
            /\ output = <<MsgSolved>>
            /\ waitInterval = FALSE
       ELSE IF cooldownSignal
       THEN /\ langDisabled = TRUE
            /\ startBtn = Disabled
            /\ view = WaitView
            /\ output = <<MsgWait>>
            /\ waitInterval = TRUE
       ELSE /\ langDisabled = FALSE
            /\ startBtn = Enabled
            /\ view = InitialView
            /\ output = <<>>
            /\ waitInterval = FALSE

\* main() on a new document of the same problem: the store and the clock stay
Reload ==
    /\ \E s, c \in BOOLEAN :
        /\ solvedSignal' = s
        /\ cooldownSignal' = c
        /\ waiting' = c
        /\ IF s
           THEN \* Editor.solved
                /\ langDisabled' = TRUE
                /\ startBtn' = Disabled
                /\ view' = SolvedView
                /\ output' = AddOutput(<<>>, MsgSolved.text, MsgSolved.type)
                /\ waitInterval' = FALSE
                /\ starts' = <<>>
           ELSE IF c
           THEN \* Editor.wait
                /\ langDisabled' = TRUE
                /\ startBtn' = Disabled
                /\ view' = WaitView
                /\ output' = AddOutput(<<>>, MsgWait.text, MsgWait.type)
                /\ waitInterval' = TRUE
                /\ starts' = <<>>
           ELSE IF WindowOpen
           THEN \* Editor.start, suspended at the dataset fetch
                /\ langDisabled' = FALSE
                /\ startBtn' = Loading
                /\ view' = InitialView
                /\ output' = <<>>
                /\ waitInterval' = FALSE
                /\ starts' = <<[pc |-> "fetch", resume |-> TRUE]>>
           ELSE /\ langDisabled' = FALSE
                /\ startBtn' = Enabled
                /\ view' = InitialView
                /\ output' = <<>>
                /\ waitInterval' = FALSE
                /\ starts' = <<>>
    /\ runBtn' = Disabled
    /\ submitBtn' = Disabled
    /\ timerInterval' = FALSE
    /\ liveTimers' = 0
    /\ dataset' = FALSE
    /\ initialized' = [l \in Languages |-> FALSE]
    /\ bound' = [l \in Languages |-> Unbound]
    /\ console' = Host
    /\ resets' = <<>>
    /\ runs' = <<>>
    /\ submitted' = 0
    /\ payload' = <<>>
    /\ UNCHANGED <<storeVars, now>>
    /\ status' = "ready"
    /\ overlay' = FALSE
    /\ UNCHANGED bootVars
    /\ UNCHANGED elsewhere

-----------------------------------------------------------------------------
(* Editor.start *)

\* the end of reset() and the statements of start() after it.  getSkeleton
\* of a runner that was never initialised throws, which rejects start().
StartEnd(init, btn) ==
    IF dbCode[language] = "none" /\ ~init[language]
    THEN /\ startBtn' = btn
         /\ UNCHANGED <<view, output, runBtn, submitBtn, surfaceVars>>
    ELSE /\ Room(<<MsgLoaded>>)
         /\ view' = SetEditor(SavedOrSkeletonWith(bound'), FALSE)
         /\ status' = "ready"
         /\ overlay' = FALSE
         /\ output' = AddOutput(output, MsgLoaded.text, MsgLoaded.type)
         /\ runBtn' = Enabled
         /\ submitBtn' = Enabled
         /\ startBtn' = Disabled

\* start() from DB.save(START_TIMESTAMP) on, up to the runtime boot that
\* suspends it or to its end; rest are the other start() calls in flight
StartBody(rest, r, btn) ==
    /\ dataset' = TRUE
    /\ dbStart' = now
    /\ timerInterval' = TRUE
    /\ liveTimers' = clearInterval(timerInterval, liveTimers) + 1
    /\ IF language = "python" /\ ~initialized["python"]
       THEN /\ starts' = Append(rest, [pc |-> "init", resume |-> r])
            /\ startBtn' = btn
            /\ overlay' = TRUE
            /\ UNCHANGED <<view, output, runBtn, submitBtn, runnerVars, status>>
       ELSE /\ starts' = rest
            /\ initialized' = [initialized EXCEPT ![language] = TRUE]
            /\ bound' = BoundAfterInit(language, DatasetText(dataset'))
            /\ UNCHANGED console
            /\ StartEnd(initialized', btn)

\* a click on the start control
StartClick ==
    /\ Clickable(startBtn)
    /\ Len(starts) < MaxStarts /\ InFlight < MaxInFlight
    /\ IF ~dataset
       THEN /\ starts' = Append(starts, [pc |-> "fetch", resume |-> FALSE])
            /\ startBtn' = Loading
            /\ UNCHANGED <<dataset, dbStart, timerVars, view, output,
                           runBtn, submitBtn, runnerVars, surfaceVars>>
       ELSE StartBody(starts, FALSE, Loading)
    /\ UNCHANGED <<dbLanguage, dbCode, envVars, waiting, langDisabled,
                   waitInterval, resets, runs, submitted, payload>>
    /\ record' = RecordOf(dbLanguage', dbCode', dbStart')
    /\ UNCHANGED bootVars
    /\ UNCHANGED elsewhere

\* the dataset fetch of a suspended start() resolves
StartFetched ==
    /\ \E i \in 1..Len(starts) :
        /\ starts[i].pc = "fetch"
        /\ StartBody(RemoveAt(starts, i), starts[i].resume, startBtn)
    /\ UNCHANGED <<dbLanguage, dbCode, envVars, waiting, langDisabled,
                   waitInterval, resets, runs, submitted, payload>>
    /\ record' = RecordOf(dbLanguage', dbCode', dbStart')
    /\ UNCHANGED bootVars
    /\ UNCHANGED elsewhere

\* the dataset fetch rejects: start() ends there
StartFetchFailed ==
    /\ \E i \in 1..Len(starts) :
        /\ starts[i].pc = "fetch"
        /\ starts' = RemoveAt(starts, i)
    /\ UNCHANGED <<storeVars, envVars, waiting, view, output, buttonVars,
                   timerVars, waitInterval, dataset, runnerVars, resets,
                   runs, submitted, payload>>
    /\ UNCHANGED surfaceVars
    /\ UNCHANGED bootVars
    /\ UNCHANGED elsewhere

\* PythonRunner.init resolves for a suspended start()
StartBooted ==
    /\ \E i \in 1..Len(starts) :
        /\ starts[i].pc = "init"
        /\ starts' = RemoveAt(starts, i)
    /\ initialized' = [initialized EXCEPT !["python"] = TRUE]
    /\ bound' = [bound EXCEPT !["python"] = DatasetText(dataset)]
    /\ UNCHANGED console
    /\ StartEnd(initialized', startBtn)
    /\ UNCHANGED <<storeVars, envVars, waiting, langDisabled, timerVars,
                   waitInterval, dataset, resets, runs, submitted, payload>>
    /\ UNCHANGED bootVars
    /\ UNCHANGED elsewhere

\* PythonRunner.init rejects: reset() and start() end there
StartBootFailed ==
    /\ \E i \in 1..Len(starts) :
        /\ starts[i].pc = "init"
        /\ starts' = RemoveAt(starts, i)
    /\ UNCHANGED <<storeVars, envVars, waiting, view, output, buttonVars,
                   timerVars, waitInterval, dataset, runnerVars, resets,
                   runs, submitted, payload>>
    /\ UNCHANGED surfaceVars
    /\ UNCHANGED bootVars
    /\ UNCHANGED elsewhere

-----------------------------------------------------------------------------
(* Countdown *)

\* updateTimerDisplay: the minutes and seconds it writes to the timer text
updateTimerDisplay ==
    [minutes |-> remainingSeconds \div 60, seconds |-> remainingSeconds % 60]

\* the test of the interval callback: this.problem.remainingSeconds <= 0
TimeIsUp == remainingSeconds <= 0

\* the interval callback installed by startTimer
TimerTick ==
    /\ liveTimers > 0
    /\ IF TimeIsUp
       THEN /\ Room(<<MsgTimeUp>>)
            /\ timerInterval' = StopTimer
            /\ liveTimers' = clearInterval(timerInterval, liveTimers)
            /\ output' = AddOutput(output, MsgTimeUp.text, MsgTimeUp.type)
            /\ startBtn' = Enabled
            /\ submitBtn' = Disabled
            /\ runBtn' = Disabled
            /\ dbStart' = ProblemReset
       ELSE UNCHANGED <<timerVars, output, startBtn, submitBtn, runBtn, dbStart>>
    /\ UNCHANGED <<dbLanguage, dbCode, envVars, waiting, view, langDisabled,
                   waitInterval, dataset, runnerVars, asyncVars, submitted,
                   payload>>
    /\ record' = RecordOf(dbLanguage', dbCode', dbStart')
    /\ UNCHANGED surfaceVars
    /\ UNCHANGED bootVars
    /\ UNCHANGED elsewhere

\* time passes
AdvanceClock ==
    /\ now + ClockStep <= MaxNow
    /\ now' = now + ClockStep
    /\ UNCHANGED <<storeVars, solvedSignal, cooldownSignal,
                   waiting, view, output, buttonVars, timerVars,
                   waitInterval, dataset, runnerVars, asyncVars, submitted,
                   payload>>
    /\ UNCHANGED surfaceVars
    /\ UNCHANGED bootVars
    /\ UNCHANGED elsewhere

-----------------------------------------------------------------------------
(* Cooldown *)

\* the host page stops showing the "please wait" element
CooldownClears ==
    /\ cooldownSignal
    /\ cooldownSignal' = FALSE
    /\ UNCHANGED <<storeVars, now, solvedSignal, waiting, view,
                   output, buttonVars, timerVars, waitInterval, dataset,
                   runnerVars, asyncVars, submitted, payload>>
    /\ UNCHANGED surfaceVars
    /\ UNCHANGED bootVars
    /\ UNCHANGED elsewhere

\* the surface the poll loads once the cooldown is over: setEditor(null, true)
ReleasedViewReadOnly == SetEditor("placeholder", FALSE)

ReleasedView == SetEditor("placeholder", TRUE)

\* a callback that leaves its interval installed when it releases the page
WaitTickPolling ==
    /\ waitInterval
    /\ waiting' = ProblemTick
    /\ IF isReady'
       THEN /\ langDisabled' = FALSE
            /\ startBtn' = Enabled
            /\ runBtn' = Enabled
            /\ submitBtn' = Enabled
            /\ output' = <<>>
            /\ view' = ReleasedView
            /\ status' = "ready"
       ELSE UNCHANGED <<langDisabled, startBtn, runBtn, submitBtn,
                        output, view, status>>
    /\ UNCHANGED <<storeVars, envVars, timerVars, dataset, runnerVars,
                   asyncVars, submitted, payload, waitInterval>>
    /\ UNCHANGED overlay
    /\ UNCHANGED bootVars
    /\ UNCHANGED elsewhere

\* the interval callback installed by Editor.wait
WaitTick ==
    /\ waitInterval
    /\ waiting' = ProblemTick
    /\ IF isReady'
       THEN /\ langDisabled' = FALSE
            /\ startBtn' = Enabled
            /\ runBtn' = Enabled
            /\ submitBtn' = Enabled
            /\ waitInterval' = FALSE
            /\ output' = <<>>
            /\ view' = ReleasedView
            /\ status' = "ready"
       ELSE UNCHANGED <<langDisabled, startBtn, runBtn, submitBtn,
                        waitInterval, output, view, status>>
    /\ UNCHANGED <<storeVars, envVars, timerVars, dataset, runnerVars,
                   asyncVars, submitted, payload>>
    /\ UNCHANGED overlay
    /\ UNCHANGED bootVars
    /\ UNCHANGED elsewhere

-----------------------------------------------------------------------------
(* Language switch and editing *)

\* getSkeleton of a runner that was never initialised throws
ResetThrows(init) == dbCode[language] = "none" /\ ~init[language]

\* the change listener of the language selector: the language setter and
\* reset() up to the runtime boot that suspends it or to its end
SwitchLanguage ==
    /\ ~langDisabled
    /\ \E l \in Languages :
        /\ l # language
        /\ dbLanguage' = l
        /\ UNCHANGED <<dbCode, dbStart>>
        /\ record' = RecordOf(dbLanguage', dbCode', dbStart')
        /\ IF l = "python" /\ ~initialized["python"]
           THEN /\ Len(resets) < MaxResets /\ InFlight < MaxInFlight
                /\ resets' = Append(resets, dataset)
                /\ overlay' = TRUE
                /\ UNCHANGED <<view, runnerVars, status>>
           ELSE /\ initialized' = [initialized EXCEPT ![l] = TRUE]
                /\ bound' = BoundAfterInit(l, DatasetText(dataset))
                /\ view' = SetEditor(SavedOrSkeleton, FALSE)'
                /\ status' = "ready"
                /\ overlay' = FALSE
                /\ UNCHANGED <<resets, console>>
    /\ UNCHANGED <<envVars, waiting, output, buttonVars, timerVars,
                   waitInterval, dataset, starts, runs, submitted, payload>>
    /\ UNCHANGED bootVars
    /\ UNCHANGED elsewhere

\* PythonRunner.init resolves for a suspended language-switch reset()
ResetBooted ==
    /\ \E i \in 1..Len(resets) :
        /\ resets' = RemoveAt(resets, i)
        /\ bound' = [bound EXCEPT !["python"] = DatasetText(resets[i])]
    /\ initialized' = [initialized EXCEPT !["python"] = TRUE]
    /\ UNCHANGED console
    /\ IF ResetThrows(initialized')
       THEN UNCHANGED <<view, surfaceVars>>
       ELSE /\ view' = SetEditor(SavedOrSkeletonWith(bound'), FALSE)
            /\ status' = "ready"
            /\ overlay' = FALSE
    /\ UNCHANGED <<storeVars, envVars, waiting, output, buttonVars,
                   timerVars, waitInterval, dataset, starts, runs,
                   submitted, payload>>
    /\ UNCHANGED bootVars
    /\ UNCHANGED elsewhere

\* PythonRunner.init rejects: the reset() ends there
ResetBootFailed ==
    /\ \E i \in 1..Len(resets) : resets' = RemoveAt(resets, i)
    /\ UNCHANGED <<storeVars, envVars, waiting, view, output, buttonVars,
                   timerVars, waitInterval, dataset, runnerVars, starts,
                   runs, submitted, payload>>
    /\ UNCHANGED surfaceVars
    /\ UNCHANGED bootVars
    /\ UNCHANGED elsewhere

\* the user changes the document: the update listener saves it
Edit ==
    /\ view.editable
    /\ \E d \in {"blank", "text"} :
        /\ d # view.doc
        /\ view' = [view EXCEPT !.doc = d]
        /\ dbCode' = [dbCode EXCEPT ![language] = d]
    /\ UNCHANGED <<dbLanguage, dbStart, envVars, waiting, output, buttonVars,
                   timerVars, waitInterval, dataset, runnerVars,
                   asyncVars, submitted, payload>>
    /\ record' = RecordOf(dbLanguage', dbCode', dbStart')
    /\ UNCHANGED surfaceVars
    /\ UNCHANGED bootVars
    /\ UNCHANGED elsewhere

-----------------------------------------------------------------------------
(* Editor.run, Editor.clear, Editor.submit *)

\* the state run() leaves the run control in after its try/catch, and a
\* run() that leaves the control loading
RunEndLoading == Loading

RunEnd == Enabled

\* run() up to its first suspension in the user's code, or to its end
RunCall ==
    IF ~isStarted
       THEN /\ Room(<<MsgNotStarted>>)
            /\ output' = AddOutput(output, MsgNotStarted.text, MsgNotStarted.type)
            /\ UNCHANGED <<runBtn, runs, console>>
       ELSE IF view.doc = "blank"
       THEN /\ Room(<<MsgNothing>>)
            /\ output' = AddOutput(output, MsgNothing.text, MsgNothing.type)
            /\ UNCHANGED <<runBtn, runs, console>>
       ELSE IF ~initialized[language]
       THEN /\ Room(<<MsgNotInit(language)>>)
            /\ output' = AddOutput(output, MsgNotInit(language).text, MsgNotInit(language).type)
            /\ runBtn' = RunEnd
            /\ UNCHANGED <<runs, console>>
       ELSE /\ Len(runs) < MaxRuns /\ InFlight < MaxInFlight
            /\ Room(RunBefore(language))
            /\ runs' = Append(runs, RunEntry(language))
            /\ console' = IF language = "javascript" THEN Capture ELSE console
            /\ output' = AddAll(output, RunBefore(language))
            /\ runBtn' = Loading

\* a click on the run control
RunClick ==
    /\ Clickable(runBtn)
    /\ RunCall
    /\ UNCHANGED <<storeVars, envVars, waiting, view, submitBtn, startBtn,
                   langDisabled, timerVars, waitInterval, dataset,
                   initialized, bound, starts, resets, submitted, payload>>
    /\ UNCHANGED surfaceVars
    /\ UNCHANGED bootVars
    /\ UNCHANGED elsewhere

\* Cmd+Enter: the keydown listener of the document calls run() itself
RunHotkey ==
    /\ RunCall
    /\ UNCHANGED <<storeVars, envVars, waiting, view, submitBtn, startBtn,
                   langDisabled, timerVars, waitInterval, dataset,
                   initialized, bound, starts, resets, submitted, payload>>
    /\ UNCHANGED surfaceVars
    /\ UNCHANGED bootVars
    /\ UNCHANGED elsewhere

\* the user's code of a suspended run() settles: the rest of the sequence
\* is appended and the run control is enabled
RunSettled ==
    /\ \E i \in 1..Len(runs), b \in Behaviours :
        LET rest == RunAfter(runs[i].lang, b)
        IN  /\ Room(rest)
            /\ output' = AddAll(output, rest)
            /\ runs' = RemoveAt(runs, i)
            /\ console' = IF runs[i].lang = "javascript"
                           THEN runs[i].original ELSE console
    /\ runBtn' = RunEnd
    /\ UNCHANGED <<storeVars, envVars, waiting, view, submitBtn, startBtn,
                   langDisabled, timerVars, waitInterval, dataset,
                   initialized, bound, starts, resets, submitted, payload>>
    /\ UNCHANGED surfaceVars
    /\ UNCHANGED bootVars
    /\ UNCHANGED elsewhere

\* a clear that also forgets the saved code of the current language
ClearForgetting ==
    /\ output # <<>>
    /\ output' = <<>>
    /\ dbCode' = [dbCode EXCEPT ![language] = "none"]
    /\ UNCHANGED <<dbLanguage, dbStart, envVars, waiting, view, buttonVars,
                   timerVars, waitInterval, dataset, runnerVars,
                   asyncVars, submitted, payload>>
    /\ record' = RecordOf(dbLanguage', dbCode', dbStart')
    /\ UNCHANGED surfaceVars
    /\ UNCHANGED bootVars
    /\ UNCHANGED elsewhere

\* the clear control, or Cmd+K
Clear ==
    /\ output # <<>>
    /\ output' = <<>>
    /\ UNCHANGED <<storeVars, envVars, waiting, view, buttonVars,
                   timerVars, waitInterval, dataset, runnerVars,
                   asyncVars, submitted, payload>>
    /\ UNCHANGED surfaceVars
    /\ UNCHANGED bootVars
    /\ UNCHANGED elsewhere

\* a submit() whose failure to find the form ends the attempt
SubmitCallEnding(formPresent) ==
    LET out == getLastOutput(output)
    IN  IF out = <<>>
        THEN /\ Room(<<MsgNoOutput>>)
             /\ output' = AddOutput(output, MsgNoOutput.text, MsgNoOutput.type)
             /\ UNCHANGED <<dbStart, timerVars, submitted, payload>>
        ELSE IF ~formPresent
        THEN /\ Room(<<MsgNoForm>>)
             /\ output' = AddOutput(output, MsgNoForm.text, MsgNoForm.type)
             /\ dbStart' = ProblemReset
             /\ timerInterval' = StopTimer
             /\ liveTimers' = clearInterval(timerInterval, liveTimers)
             /\ UNCHANGED <<submitted, payload>>
        ELSE /\ Room(<<MsgSubmitted>>)
             /\ submitted < MaxSubmits
             /\ submitted' = submitted + 1
             /\ payload' = out
             /\ dbStart' = ProblemReset
             /\ timerInterval' = StopTimer
             /\ liveTimers' = clearInterval(timerInterval, liveTimers)
             /\ output' = AddOutput(output, MsgSubmitted.text, MsgSubmitted.type)

\* submit(); formPresent tells whether the host page has the submission form
\* and its file input
SubmitCall(formPresent) ==
    LET out == getLastOutput(output)
    IN  IF out = <<>>
        THEN /\ Room(<<MsgNoOutput>>)
             /\ output' = AddOutput(output, MsgNoOutput.text, MsgNoOutput.type)
             /\ UNCHANGED <<dbStart, timerVars, submitted, payload>>
        ELSE IF ~formPresent
        THEN /\ Room(<<MsgNoForm>>)
             /\ output' = AddOutput(output, MsgNoForm.text, MsgNoForm.type)
             /\ UNCHANGED <<dbStart, timerVars, submitted, payload>>
        ELSE /\ Room(<<MsgSubmitted>>)
             /\ submitted < MaxSubmits
             /\ submitted' = submitted + 1
             /\ payload' = out
             /\ dbStart' = ProblemReset
             /\ timerInterval' = StopTimer
             /\ liveTimers' = clearInterval(timerInterval, liveTimers)
             /\ output' = AddOutput(output, MsgSubmitted.text, MsgSubmitted.type)

\* a click on the submit control
Submit ==
    /\ Clickable(submitBtn)
    /\ \E formPresent \in BOOLEAN : SubmitCall(formPresent)
    /\ UNCHANGED <<dbLanguage, dbCode, envVars, waiting, view, buttonVars,
                   waitInterval, dataset, runnerVars, asyncVars>>
    /\ record' = RecordOf(dbLanguage', dbCode', dbStart')
    /\ UNCHANGED surfaceVars
    /\ UNCHANGED bootVars
    /\ UNCHANGED elsewhere

-----------------------------------------------------------------------------

Next ==
    \/ Reload
    \/ StartClick
    \/ StartFetched
    \/ StartFetchFailed
    \/ StartBooted
    \/ StartBootFailed
    \/ TimerTick
    \/ AdvanceClock
    \/ CooldownClears
    \/ WaitTick
    \/ SwitchLanguage
    \/ ResetBooted
    \/ ResetBootFailed
    \/ Edit
    \/ RunClick
    \/ RunHotkey
    \/ RunSettled
    \/ Clear
    \/ Submit

Spec == Init /\ [][Next]_vars

-----------------------------------------------------------------------------
(* Properties *)

\* a step in which a start() begun by main() on load (a resume) gets past the
\* dataset fetch and installs the countdown while the window is still open
ResumeStep ==
    /\ WindowOpen
    /\ ~dataset /\ dataset'
    /\ \E i \in 1..Len(starts) : starts[i] = [pc |-> "fetch", resume |-> TRUE]

\* C1: a page loaded at T + e, e < 300 s, with START_TIMESTAMP = T persisted
\* resumes the countdown with 300 - e seconds left: the step that installs
\* the countdown of a resumed session leaves the remaining time as it was
\* (the clock does not move in the step), reload after reload.
C1_ResumeKeepsRemaining ==
    [][ResumeStep => remainingSeconds' = remainingSeconds]_vars

\* a step in which submit() hands a payload to the host form
HandsPayload == submitted' = submitted + 1

\* C2: submit() hands the payload to the host form only while the session is
\* Started; in NotStarted (Expired included), Waiting and Solved no
\* submission is made.
C2_SubmitOnlyWhileStarted ==
    [][HandsPayload => SessionState = "Started"]_vars

\* a run of the countdown callback that finds the window used up
ExpiryTick == TimerTick /\ now - dbStart >= WindowMs

\* the page of an expired session
Expired ==
    /\ ~timerInterval
    /\ dbStart = NoTimestamp
    /\ output # <<>> /\ output[Len(output)] = MsgTimeUp
    /\ startBtn = Enabled
    /\ runBtn = Disabled
    /\ submitBtn = Disabled
    /\ ~view.editable

\* C3: when the countdown callback runs at or after startTimestamp + 300 s
\* the session becomes Expired: the interval is stopped, the persisted
\* startTimestamp is cleared, an error notification is appended, start is
\* enabled, run and submit are disabled and the surface is not editable.
C3_Expiry == [][ExpiryTick => Expired']_vars

\* C4: a run() invoked, by the run control or by Cmd+Enter, while an earlier
\* run() has not resolved is ignored, so at most one execution is in flight.
C4_SingleInFlight == Len(runs) <= 1

\* C5: on a page loaded with the success marker the language selector and
\* the start control stay disabled, no countdown is started, whatever the
\* persisted startTimestamp and the cooldown signal, and the surface stays
\* read-only and shows the last-saved code.
C5_SolvedTerminal ==
    solvedSignal =>
        /\ langDisabled
        /\ startBtn = Disabled
        /\ ~timerInterval /\ starts = <<>>
        /\ ~view.editable
        /\ view.doc = SavedOrPlaceholder

\* a solved page with saved code, an open window and an active cooldown
\* signal, on which a run has been attempted
C5_SolvedUsed ==
    /\ solvedSignal /\ cooldownSignal /\ WindowOpen
    /\ dbCode[language] = "text"
    /\ Len(output) > 1

\* C6: the saved code of either language is never written while the session
\* is Solved or Waiting, whatever is attempted: a run, a language switch, an
\* edit or a timer tick.
C6_NoSaveWhileSolvedOrWaiting ==
    [][(SessionState \in {"Solved", "Waiting"}) => (dbCode' = dbCode)]_vars

\* a waiting page that holds saved code, on which a run has been attempted
C6_WaitingUsed ==
    /\ SessionState = "Waiting"
    /\ dbCode[language] = "text"
    /\ Len(output) > 1

\* a step in which a start() begun by a click on the start control writes
\* the start timestamp
UserStartSaves ==
    \/ StartClick /\ dataset
    \/ StartFetched /\ \E i \in 1..Len(starts) : starts[i] = [pc |-> "fetch", resume |-> FALSE]

\* C7: while a solve window is open (startTimestamp set and less than 300 s
\* old) no start made by the user replaces startTimestamp.
C7_OneStartPerWindow ==
    [][(UserStartSaves /\ WindowOpen) => (dbStart' = dbStart)]_vars

-----------------------------------------------------------------------------
(* The run section of a transcript, stated without the scan of the code *)

Markers(log, tok) == {i \in 1..Len(log) : \E k \in 1..Len(log[i].text) : log[i].text[k] = tok}

Last(S) == CHOOSE i \in S : \A j \in S : j <= i

First(S) == CHOOSE i \in S : \A j \in S : i <= j

\* the lines after the last start marker, up to the next end marker
Section(log) ==
    LET s == Last(Markers(log, RUN))
        E == {j \in Markers(log, DONE) : j > s}
        e == IF E = {} THEN Len(log) + 1 ELSE First(E)
    IN  SubSeq(log, s + 1, e - 1)

\* a line that is not error-typed and does not start with "Result:"
Kept(l) == l.type # "error" /\ ~(l.text # <<>> /\ l.text[1] = RES)

\* a text with a visible character in it
Visible(text) == \E k \in 1..Len(text) : text[k] \notin Whitespace

\* the transcript is empty, has no start marker, or its last run section has
\* no non-blank plain line
NoPlainOutput(log) ==
    \/ Markers(log, RUN) = {}
    \/ \A k \in 1..Len(Section(log)) :
          ~(Kept(Section(log)[k]) /\ Visible(Section(log)[k].text))

\* C8: on a transcript that is empty, has no start marker, or whose last run
\* section has no non-blank plain line, submit() appends an error message,
\* makes no host form submission and leaves the timer and the persisted
\* startTimestamp as they were.
C8_NoOutputGuard ==
    [][(Submit /\ NoPlainOutput(output)) =>
          /\ output' = Append(output, MsgNoOutput)
          /\ MsgNoOutput.type = "error"
          /\ UNCHANGED <<submitted, payload, timerVars, dbStart>>]_vars

\* submit() has rejected a transcript that holds a run without a plain line
C8_Rejected ==
    /\ Len(output) > 1
    /\ output[Len(output)] = MsgNoOutput
    /\ Markers(SubSeq(output, 1, Len(output) - 1), RUN) # {}
    /\ submitted = 0

-----------------------------------------------------------------------------
(* getLastOutput over arbitrary transcripts *)

\* the lines a transcript is drawn from
SomeLines ==
    { Line(<<RUN>>, "success"), Line(<<DONE>>, "success"),
      Line(<<"line1">>, "plain"), Line(<<"line2">>, "plain"),
      Line(<<RES, SP, "x">>, "plain"), Line(<<"line1">>, "error"),
      Line(<<SP>>, "plain"), Line(<<NL, "line2", SP, RUN>>, "plain") }

Transcripts == UNION {[1..n -> SomeLines] : n \in 0..MaxLines}

\* a page that has not been started, with any transcript in its log
InitExtract ==
    /\ output \in Transcripts
    /\ dbLanguage = "none"
    /\ dbCode = [l \in Languages |-> "none"]
    /\ dbStart = NoTimestamp
    /\ record = Absent
    /\ now = 0
    /\ status = "ready"
    /\ overlay = FALSE
    /\ loading = FALSE
    /\ attempts = 1
    /\ mainPc = "done"
    /\ elsewhere = Absent
    /\ solvedSignal = FALSE
    /\ cooldownSignal = FALSE
    /\ waiting = FALSE
    /\ view = InitialView
    /\ runBtn = Disabled
    /\ submitBtn = Disabled
    /\ startBtn = Enabled
    /\ langDisabled = FALSE
    /\ timerInterval = FALSE
    /\ liveTimers = 0
    /\ waitInterval = FALSE
    /\ dataset = FALSE
    /\ initialized = [l \in Languages |-> FALSE]
    /\ bound = [l \in Languages |-> Unbound]
    /\ console = Host
    /\ starts = <<>>
    /\ resets = <<>>
    /\ runs = <<>>
    /\ submitted = 0
    /\ payload = <<"unset">>

\* getLastOutput is called and its result kept
Extract ==
    /\ payload = <<"unset">>
    /\ payload' = getLastOutput(output)
    /\ UNCHANGED <<storeVars, envVars, waiting, view, output, buttonVars,
                   timerVars, waitInterval, dataset, runnerVars,
                   asyncVars, submitted>>
    /\ UNCHANGED surfaceVars
    /\ UNCHANGED bootVars
    /\ UNCHANGED elsewhere

SpecExtract == InitExtract /\ [][Extract]_vars

\* the text of the last run section: its kept lines,
\* joined with newlines and trimmed; nothing when there is no start marker
Extracted(log) ==
    IF Markers(log, RUN) = {} THEN <<>>
    ELSE LET kept == SelectSeq(Section(log), Kept)
         IN  Trim(Join([k \in 1..Len(kept) |-> kept[k].text]))

\* the transcript of the example
Example ==
    << Line(<<RUN>>, "success"), Line(<<"line1">>, "plain"),
       Line(<<"line2">>, "plain"), Line(<<RES, SP, "x">>, "plain"),
       Line(<<DONE>>, "success") >>

\* C9: for every transcript getLastOutput returns the lines after the last
\* line containing the start marker, up to the next line containing the end
\* marker or the end of the log, without the error-typed lines and the lines
\* starting with "Result:", joined with newlines and trimmed; the example
\* yields "line1\nline2".
C9_Extraction ==
    [][Extract =>
          /\ payload' = Extracted(output)
          /\ output = Example => payload' = <<"line1", NL, "line2">>]_vars

\* the example has been extracted
C9_ExampleExtracted == output = Example /\ payload = <<"line1", NL, "line2">>

\* a step of run() taken with one of its preconditions unmet
RunRejected ==
    /\ RunClick \/ RunHotkey
    /\ ~isStarted \/ view.doc = "blank" \/ ~initialized[language]

\* C10: when the session is not Started, or the content is blank, or the
\* backend is not ready, run() appends one error message and changes
\* nothing else: no execution begins, the run control keeps its state and
\* the persisted record is unchanged.
C10_RunPreconditions ==
    [][RunRejected =>
          /\ Len(output') = Len(output) + 1
          /\ SubSeq(output', 1, Len(output)) = output
          /\ output'[Len(output')].type = "error"
          /\ UNCHANGED <<runs, runBtn, storeVars>>]_vars

\* C11: a submit() that hands a payload to the host form stops the countdown
\* interval and clears the persisted startTimestamp; with the interval
\* stopped no tick appends an expiry notification, and a reload that finds
\* the timestamp cleared resumes nothing.
C11_SubmitEndsAttempt ==
    [][/\ HandsPayload => (~timerInterval' /\ dbStart' = NoTimestamp)
       /\ ~timerInterval => (ErrorLines(output') <= ErrorLines(output) \/ ~TimerTick)
       /\ (Reload /\ dbStart = NoTimestamp) => (starts' = <<>> /\ ~timerInterval')]_vars

\* a running countdown has been ended by a submission, some time into the
\* window
C11_Ended ==
    /\ submitted = 1 /\ now > 0
    /\ output # <<>> /\ output[Len(output)] = MsgSubmitted
    /\ ~timerInterval /\ dbStart = NoTimestamp

\* the page of a waiting session: language selector and start control
\* disabled, surface read-only
WaitingPage == langDisabled /\ startBtn = Disabled /\ ~view.editable

\* C12: Waiting is entered by a submission and by a load with the cooldown
\* signal active: the step leaves the language selector and the start
\* control disabled and the surface read-only, before any other action of
\* the user is processed.
C12_WaitingEntered ==
    [][(HandsPayload \/ (Reload /\ cooldownSignal')) => WaitingPage']_vars

-----------------------------------------------------------------------------
(* Cooldown release *)

\* the interval installed by wait() keeps firing while it is installed; the
\* release is followed with one call of run() in flight at a time
FairSpec == Init /\ [][Next /\ Len(runs') <= 1]_vars /\ WF_vars(WaitTick)

\* the page after the poll has found the cooldown cleared
Released ==
    /\ ~langDisabled
    /\ startBtn = Enabled /\ runBtn = Enabled /\ submitBtn = Enabled
    /\ output = <<>>
    /\ view = SetEditor("placeholder", TRUE)
    /\ ~waitInterval

\* C13: while Waiting the cooldown signal is polled; if the signal clears
\* for good the session eventually leaves Waiting; the step that leaves
\* Waiting re-enables the controls, clears the output and loads a fresh
\* editable surface; while the signal stays active the session stays in
\* Waiting (or the page is loaded again as solved).
C13_CooldownRelease ==
    /\ [][/\ (isWaiting /\ ~isWaiting' /\ ~Reload) => Released'
          /\ (isWaiting /\ cooldownSignal /\ cooldownSignal') =>
                 SessionState' \in {"Waiting", "Solved"}]_vars
    /\ []((isWaiting /\ []~cooldownSignal) => <>~isWaiting)

\* a session released from Waiting by the poll
C13_Released == Released /\ ~solvedSignal /\ ~waiting /\ ~cooldownSignal /\ now > 0

-----------------------------------------------------------------------------
(* Run control *)

\* a step in which a run() that passed its preconditions returns: at once,
\* with the line of a runner that is not initialised, or when the user's
\* code has settled
RunReturns ==
    \/ RunSettled
    \/ /\ RunClick \/ RunHotkey
       /\ isStarted /\ view.doc # "blank" /\ ~initialized[language]

\* C14: every run() that passed its preconditions ends with the run control
\* enabled, whether the sequence completed or ended with an error line; and
\* the run control is loading only while a run() is in flight.
C14_RunControlReleased ==
    /\ [][RunReturns => (runBtn' = Enabled)]_vars
    /\ [](runBtn = Loading => runs # <<>>)

\* a run whose code failed has returned and the run control is enabled
C14_FailedRunReleased ==
    /\ runs = <<>> /\ runBtn = Enabled
    /\ output # <<>> /\ output[Len(output)] = MsgFailed

-----------------------------------------------------------------------------
(* Console of the host page *)

JsInFlight == {i \in 1..Len(runs) : runs[i].lang = "javascript"}

\* C17: whenever no JavaScript run is in flight, console.log, console.error
\* and console.warn are the functions of the host page, for every sequence
\* of runs.
C17_LoggingRestored == (JsInFlight = {}) => (console = Host)

-----------------------------------------------------------------------------
(* The runners through their interface: init, getSkeleton, run *)

\* the datasets a runner is initialised with
DataTokens == {COMMA, TAB, NL, "x"}

Datasets == UNION {[1..n -> DataTokens] : n \in 0..MaxData}

\* a page that has not been started; the runner of either language
InitRunner ==
    /\ dbLanguage \in Languages
    /\ dbCode = [l \in Languages |-> "none"]
    /\ dbStart = NoTimestamp
    /\ record = Absent
    /\ now = 0
    /\ status = "ready"
    /\ overlay = FALSE
    /\ loading = FALSE
    /\ attempts = 1
    /\ mainPc = "done"
    /\ elsewhere = Absent
    /\ solvedSignal = FALSE
    /\ cooldownSignal = FALSE
    /\ waiting = FALSE
    /\ view = InitialView
    /\ output = <<>>
    /\ runBtn = Disabled
    /\ submitBtn = Disabled
    /\ startBtn = Enabled
    /\ langDisabled = FALSE
    /\ timerInterval = FALSE
    /\ liveTimers = 0
    /\ waitInterval = FALSE
    /\ dataset = FALSE
    /\ initialized = [l \in Languages |-> FALSE]
    /\ bound = [l \in Languages |-> Unbound]
    /\ console = Host
    /\ starts = <<>>
    /\ resets = <<>>
    /\ runs = <<>>
    /\ submitted = 0
    /\ payload = <<>>

\* runner.init(d), run to its end
RunnerInit(d) ==
    /\ initialized' = [initialized EXCEPT ![language] = TRUE]
    /\ bound' = BoundAfterInit(language, d)
    /\ UNCHANGED <<storeVars, envVars, waiting, view, output, buttonVars,
                   timerVars, waitInterval, dataset, console, asyncVars,
                   submitted, payload>>
    /\ UNCHANGED surfaceVars
    /\ UNCHANGED bootVars
    /\ UNCHANGED elsewhere

RunnerInits == \E d \in Datasets : RunnerInit(d)

\* runner.getSkeleton(), its result shown in the surface; it throws on a
\* runner that has no dataset
RunnerSkeleton ==
    /\ bound[language] # Unbound
    /\ view' = SetEditor(getSkeleton(language), FALSE)
    /\ UNCHANGED <<storeVars, envVars, waiting, output, buttonVars,
                   timerVars, waitInterval, dataset, runnerVars,
                   asyncVars, submitted, payload>>
    /\ UNCHANGED surfaceVars
    /\ UNCHANGED bootVars
    /\ UNCHANGED elsewhere

\* runner.run(code) drained up to its suspension in the user's code, or to
\* its end; output holds the items of this run
RunnerRun ==
    /\ runs = <<>>
    /\ IF ~initialized[language]
       THEN /\ output' = AddOutput(<<>>, MsgNotInit(language).text, MsgNotInit(language).type)
            /\ UNCHANGED <<runs, console>>
       ELSE /\ runs' = Append(runs, RunEntry(language))
            /\ console' = IF language = "javascript" THEN Capture ELSE console
            /\ output' = AddAll(<<>>, RunBefore(language))
    /\ UNCHANGED <<storeVars, envVars, waiting, view, buttonVars,
                   timerVars, waitInterval, dataset, initialized, bound,
                   starts, resets, submitted, payload>>
    /\ UNCHANGED surfaceVars
    /\ UNCHANGED bootVars
    /\ UNCHANGED elsewhere

\* the program p of the suspended run settles: the rest of the items
RunnerSettle(p) ==
    /\ runs # <<>>
    /\ output' = AddAll(output, RunAfter(runs[1].lang, p))
    /\ console' = IF runs[1].lang = "javascript" THEN runs[1].original ELSE console
    /\ runs' = <<>>
    /\ UNCHANGED <<storeVars, envVars, waiting, view, buttonVars,
                   timerVars, waitInterval, dataset, initialized, bound,
                   starts, resets, submitted, payload>>
    /\ UNCHANGED surfaceVars
    /\ UNCHANGED bootVars
    /\ UNCHANGED elsewhere

RunnerSettles == \E p \in Programs : RunnerSettle(p)

NextRunner == RunnerInits \/ RunnerSkeleton \/ RunnerRun \/ RunnerSettles

SpecRunner == InitRunner /\ [][NextRunner]_vars

StartItems(items) == {i \in 1..Len(items) : items[i] = MsgStart}
DoneItems(items) == {i \in 1..Len(items) : items[i] = MsgDone}
ErrorItems(items) == {i \in 1..Len(items) : items[i].type = "error"}

\* the items of a run that succeeded
Successful(items) ==
    /\ Len(items) >= 2
    /\ StartItems(items) = {1}
    /\ DoneItems(items) = {Len(items)}
    /\ \A i \in 2..(Len(items) - 1) : items[i].type \in {"plain", "error"}

Failed(items) ==
    /\ items # <<>>
    /\ ErrorItems(items) = {Len(items)}
    /\ items[Len(items)] = MsgFailed
    /\ \A i \in 1..Len(items) : ~Includes(items[i].text, DONE)

\* C16: for both backends, when the user's code fails the sequence holds
\* exactly one error-typed line, the line of the failure, as its last item,
\* and never the end marker; the run returns.
C16_FailedRun ==
    [][\A p \in Programs : (RunnerSettle(p) /\ p.throws) => (Failed(output') /\ runs' = <<>>)]_vars

\* a JavaScript run that failed: the start marker, then the failure
C16_FailedJs ==
    runs = <<>> /\ language = "javascript" /\ output = <<MsgStart, MsgFailed>>

\* C18: for both backends, init(dataset) on a backend that is already
\* initialised leaves the initialized flag and the bound dataset as they
\* are, and initialized is true after any init that returned.
C18_InitIdempotent ==
    [][\A d \in Datasets :
        RunnerInit(d) => /\ initialized'[language]
                         /\ initialized[language] => UNCHANGED <<initialized, bound>>]_vars

\* C19: for both backends, run(code) on a backend that is not initialised
\* yields exactly one error-typed line, with neither marker, and returns
\* without running the code.
C19_RunBeforeInit ==
    [][(RunnerRun /\ ~initialized[language]) =>
          /\ Len(output') = 1
          /\ output'[1].type = "error"
          /\ ~Includes(output'[1].text, RUN) /\ ~Includes(output'[1].text, DONE)
          /\ runs' = <<>> /\ console' = console]_vars

\* run() was called on the Python runner before its init
C19_Refused == ~initialized["python"] /\ language = "python" /\ output = <<MsgPyNotInit>>

\* the indices of the first line of the trimmed text
Core(text) ==
    {i \in 1..Len(text) : /\ \E j \in 1..i : text[j] \notin Whitespace
                          /\ \E k \in i..Len(text) : text[k] \notin Whitespace}

InFirstLine(text) == {i \in Core(text) : \A j \in Core(text) : j <= i => text[j] # NL}

\* the skeleton the rule gives for a language and a dataset
Rule(l, text) ==
    IF \E i \in InFirstLine(text) : text[i] = TAB THEN Scaffold(l, TAB)
    ELSE IF \E i \in InFirstLine(text) : text[i] = COMMA THEN Scaffold(l, COMMA)
    ELSE Plain(l)

\* C20: for every dataset, both backends choose the skeleton by one rule on
\* the first line of the trimmed dataset: a tab gives the tab-separated
\* skeleton, also when a comma is present; otherwise a comma gives the
\* comma-separated skeleton; otherwise the skeleton has no parsing scaffold.
C20_SkeletonSelection ==
    [][RunnerSkeleton =>
          (view'.doc = Rule(language, bound[language]))]_vars

\* a dataset whose tab is trimmed away: the comma of its first line decides
C20_TrimmedTab ==
    /\ bound[language] = <<NL, COMMA, TAB>>
    /\ view.doc = Scaffold(language, COMMA)

-----------------------------------------------------------------------------
(* Language switch *)

SkeletonsOf(l) == {Scaffold(l, TAB), Scaffold(l, COMMA), Plain(l)}

\* the surface holds the saved code of the current language if there is
\* some, else one of the skeletons of that language
LoadedForLanguage ==
    IF dbCode[language] # "none" THEN view.doc = dbCode[language]
    ELSE view.doc \in SkeletonsOf(language)

\* C21: setting the language to L persists L: every later read of the
\* language, also after a reload, returns L until the next switch, and with
\* nothing persisted the read returns python; the reset() the setter starts
\* loads the saved code of the language if present, else a skeleton of the
\* backend of that language.
C21_LanguageSwitch ==
    [][/\ (dbLanguage' # dbLanguage) =>
             /\ dbLanguage' \in Languages /\ language' = dbLanguage'
             /\ (resets' = resets) => LoadedForLanguage'
       /\ (dbLanguage' = dbLanguage) => (language' = language)
       /\ (dbLanguage' = "none") => (language' = "python")
       /\ (Len(resets') < Len(resets) /\ initialized'["python"] /\ ~initialized["python"])
             => LoadedForLanguage']_vars

\* javascript was selected before the start and its skeleton is shown
C21_Switched ==
    /\ dbLanguage = "javascript" /\ dbStart = NoTimestamp
    /\ view.doc = Plain("javascript") /\ now > 0

-----------------------------------------------------------------------------
(* The store on its own: DB.save and DB.get over one item *)

Segments == {"CODE", "python"}
Paths == UNION {[1..n -> Segments] : n \in 1..MaxPath}

\* the values the page and the checks hand to DB.save
Serializable == {JPrim("a"), JPrim("b"), JNull, JObj(Empty)}
Values == Serializable \cup {Undefined}

\* what localStorage may hold when the page opens: nothing, text that is not
\* JSON, the JSON texts null and "a", {} and {"CODE": "a"}
Items == {Absent, Corrupt, JNull, JPrim("a"), JObj(Empty),
          JObj(SetField(Empty, "CODE", JPrim("a")))}

\* what localStorage may hold for another problem
OtherItems == {Absent, JObj(SetField(Empty, "CODE", JPrim("b")))}

InitStore ==
    /\ dbLanguage = "none"
    /\ dbCode = [l \in Languages |-> "none"]
    /\ dbStart = NoTimestamp
    /\ record \in Items
    /\ now = 0
    /\ status = "ready"
    /\ overlay = FALSE
    /\ loading = FALSE
    /\ attempts = 1
    /\ mainPc = "done"
    /\ elsewhere \in OtherItems
    /\ solvedSignal = FALSE
    /\ cooldownSignal = FALSE
    /\ waiting = FALSE
    /\ view = InitialView
    /\ output = <<>>
    /\ runBtn = Disabled
    /\ submitBtn = Disabled
    /\ startBtn = Enabled
    /\ langDisabled = FALSE
    /\ timerInterval = FALSE
    /\ liveTimers = 0
    /\ waitInterval = FALSE
    /\ dataset = FALSE
    /\ initialized = [l \in Languages |-> FALSE]
    /\ bound = [l \in Languages |-> Unbound]
    /\ console = Host
    /\ starts = <<>>
    /\ resets = <<>>
    /\ runs = <<>>
    /\ submitted = 0
    /\ payload = <<>>

\* DB.save(key, value)
StoreSave(key, value, setItemThrows) ==
    /\ record' = Saved(localStorage, key, value, setItemThrows)[rootKey]
    /\ elsewhere' = Saved(localStorage, key, value, setItemThrows)[otherKey]
    /\ UNCHANGED <<dbLanguage, dbCode, dbStart, envVars, waiting, view, output,
                   buttonVars, timerVars, waitInterval, dataset,
                   runnerVars, asyncVars, submitted, payload>>
    /\ UNCHANGED surfaceVars
    /\ UNCHANGED bootVars

StoreSaves ==
    \E key \in Paths, value \in Values, setItemThrows \in BOOLEAN :
        StoreSave(key, value, setItemThrows)

NextStore == StoreSaves

SpecStore == InitStore /\ [][NextStore]_vars

\* the item deserialises into a mapping
IsMapping(item) == config(item).t = "obj"

\* C22: with a working storage and an item that deserialises into a mapping,
\* DB.get(p) right after DB.save(p, v) returns a value equal to v, for every
\* key path p of one or more segments and every JSON-serializable v, also
\* when segments of p did not exist before.
C22_RoundTrip ==
    \A key \in Paths, value \in Serializable :
        IsMapping(record) => (get(save(record, key, value, FALSE), key) = value)

\* C23: DB.get never raises; it returns undefined when the item cannot be
\* deserialised into a mapping (text that is not JSON, JSON that is not an
\* object).
C23_GetTolerant ==
    \A key \in Paths :
        /\ get(record, key).t # "throws"
        /\ (record.t \notin {"absent", "obj"}) => (get(record, key) = Undefined)

-----------------------------------------------------------------------------
(* Submission without a form *)

\* a submit() with output to hand over that hands nothing to the host page
FormAbsent == Submit /\ getLastOutput(output) # <<>> /\ submitted' = submitted

\* C24: submit() with output to hand over on a page that has no submission
\* form (or no file input) appends one failure message, hands nothing to the
\* host page and leaves nothing pending; the session is as it was: the
\* countdown interval and the persisted startTimestamp are untouched.
C24_FormAbsent ==
    [][FormAbsent =>
          /\ output' = Append(output, MsgNoForm)
          /\ MsgNoForm.type = "error"
          /\ payload' = payload
          /\ timerInterval' = timerInterval
          /\ dbStart' = dbStart /\ record' = record
          /\ SessionState' = SessionState]_vars

\* a running countdown after a submission that found no form
C24_StillRunning ==
    /\ output # <<>> /\ output[Len(output)] = MsgNoForm
    /\ timerInterval /\ isStarted /\ now > 0
    /\ submitted = 0 /\ payload = <<>>

-----------------------------------------------------------------------------
(* The surface of a started session *)

\* start() runs to its end (of a click or of a resume on load)
StartCompleted ==
    Len(output') = Len(output) + 1 /\ output'[Len(output')] = MsgLoaded

\* the reset() of a language switch runs to its end and loads the surface
ResetCompleted ==
    /\ view' # view
    /\ dbLanguage' # dbLanguage \/ Len(resets') < Len(resets)

\* C25: when start() (of a click or of a resume on load) or the reset() of a
\* language switch has run to its end and the session is Started, the
\* surface is editable and the run and submit controls are enabled.
C25_StartedSurface ==
    [][((StartCompleted \/ ResetCompleted) /\ isStarted') =>
          /\ view'.editable
          /\ runBtn' = Enabled /\ submitBtn' = Enabled]_vars

-----------------------------------------------------------------------------
(* The surface of a session that has not started *)

\* no countdown, a read-only surface that shows the placeholder
NotStartedSurface ==
    /\ ~timerInterval
    /\ ~view.editable
    /\ view.doc = "placeholder"

\* C26: a page loaded into NotStarted has no countdown interval and a
\* read-only surface that shows the placeholder, and every step that stays
\* in NotStarted (a language switch before starting among them) keeps it so.
C26_NotStartedSurface ==
    [][/\ (Reload /\ SessionState' = "NotStarted") => NotStartedSurface'
       /\ (/\ SessionState = "NotStarted" /\ NotStartedSurface
           /\ SessionState' = "NotStarted") => NotStartedSurface']_vars

-----------------------------------------------------------------------------
(* A runtime boot that fails *)

\* runner.init rejects for a start() or for the reset() of a language switch
InitRejected == StartBootFailed \/ ResetBootFailed

\* C27: when runner.init rejects, in start() or in the reset() of a language
\* switch, the status indicator is set to error and the overlay over the
\* surface is removed.
C27_InitFailureContained ==
    [][InitRejected => (status' = "error" /\ ~overlay')]_vars

-----------------------------------------------------------------------------
(* Remaining time *)

\* max(0, 300 - floor((now - startTimestamp) / 1000))
FromAbsoluteTime ==
    LET left == 300 - ((now - dbStart) \div 1000)
    IN  IF left > 0 THEN left ELSE 0

-----------------------------------------------------------------------------
(* The start time across a resume *)

\* C29: a resume on load within the window leaves the persisted
\* startTimestamp as it was; a new startTimestamp is written only when no
\* window is open (the attempt begins from NotStarted or after expiry).
C29_ResumeKeepsStart ==
    [][/\ ResumeStep => (dbStart' = dbStart /\ record' = record)
       /\ (dbStart' # dbStart /\ dbStart' # NoTimestamp) => ~WindowOpen]_vars

-----------------------------------------------------------------------------
(* Countdown intervals *)

\* C30: at most one countdown interval is installed at any time, and it is
\* the one whose handle the editor holds: once stopTimer has run (expiry,
\* submission) no countdown callback is left to fire until the next start.
C30_OneInterval ==
    /\ liveTimers <= 1
    /\ timerInterval <=> (liveTimers = 1)

\* a countdown installed by a start that follows an expired attempt
C30_Restarted ==
    /\ liveTimers = 1 /\ timerInterval
    /\ dbStart = now /\ now > 0
    /\ Len(output) = 2 /\ output[1] = MsgTimeUp /\ output[2] = MsgLoaded

-----------------------------------------------------------------------------
(* Controls outside a started session *)

\* no attempt is under way: the session is solved, or no startTimestamp is
\* persisted (never started, expired, handed in) and the page is not waiting
NoAttempt == isSolved \/ (dbStart = NoTimestamp /\ ~waiting)

\* C31: the run and submit controls are enabled only while the session is
\* Started: in no reachable state without an attempt under way (Solved,
\* NotStarted, Expired) is the run or the submit control enabled.
C31_ControlsOnlyStarted ==
    NoAttempt => (runBtn # Enabled /\ submitBtn # Enabled)

-----------------------------------------------------------------------------
(* Restart after expiry *)

\* the countdown of this page has expired and no new attempt has begun
AfterExpiry ==
    /\ ~isSolved /\ ~waiting
    /\ dbStart = NoTimestamp
    /\ \E i \in 1..Len(output) : output[i] = MsgTimeUp

\* nothing is pending that could still change the start control: no
\* suspended start() or reset(), no countdown or poll interval
NothingPending ==
    /\ starts = <<>> /\ resets = <<>>
    /\ liveTimers = 0 /\ ~waitInterval

\* C32: after the countdown has expired, with the session neither Solved
\* nor Waiting, the start control is enabled once nothing is pending that
\* would enable it without the user, whatever start() or language switch
\* was in flight when the expiry tick fired.
C32_RestartPossible ==
    (AfterExpiry /\ NothingPending) => startBtn = Enabled

-----------------------------------------------------------------------------
(* What is handed in *)

\* the texts the controller itself writes to the transcript as plain lines
ControllerTexts == {MsgLoaded.text, MsgSubmitted.text, MsgWait.text}

\* text has a controller message in it
HasControllerText(text) ==
    \E i \in 1..Len(text) : <<text[i]>> \in ControllerTexts

\* C33: the payload handed to the host form holds plain lines of a run only:
\* no message of the controller (dataset loaded, submitted, please wait) is
\* part of it.
C33_PayloadFromRun ==
    [][HandsPayload => ~HasControllerText(payload')]_vars

-----------------------------------------------------------------------------
(* Printed output of a successful run *)

\* the log ends with the lines of a run of backend l that printed to the
\* standard output, returned no value and completed
LatestRunPrinted(l) ==
    LET lines == AddAll(<<>>, RunBefore(l) \o RunAfter(l, Prints))
        n == Len(lines)
    IN  /\ Len(output) >= n
        /\ SubSeq(output, Len(output) - n + 1, Len(output)) = lines

\* C34: in a started session, when the latest run of either backend
\* succeeded, printed a non-blank text to the standard output and returned no
\* value, the text a submit hands to the host form is exactly the printed
\* text, trimmed.
C34_PrintedSubmittable ==
    \A l \in Languages :
        (isStarted /\ LatestRunPrinted(l))
            => getLastOutput(output) = Trim(MsgPrinted.text)

-----------------------------------------------------------------------------
(* Where an edit is stored *)

\* C35: every edit stores the new content as the saved code of the language
\* the surface it was typed in was created for, and leaves the saved code of
\* the other language as it was, also while a language switch is waiting for
\* its backend to boot.
C35_EditUnderSurfaceLanguage ==
    [][Edit => \A l \in Languages :
                  dbCode'[l] = IF l = view.lang THEN view'.doc ELSE dbCode[l]]_vars

-----------------------------------------------------------------------------
(* What changes the saved code *)

\* C36: the saved code of a language changes only in a step that is an edit
\* of the surface: start, resume, run, clear, submit, a language switch, the
\* ticks, the expiry and the polling of the cooldown leave the saved code of
\* both languages as it was.
C36_SavedCodeOnlyOnEdit ==
    [][(dbCode' # dbCode) => Edit]_vars

\* a session started after an edit, showing the code that was saved
C36_StartedOnSavedCode ==
    /\ isStarted /\ ~view.editable
    /\ dbCode[language] = "text" /\ view.doc = "text"

-----------------------------------------------------------------------------
(* Leaving the cooldown *)

\* C37: the poll of the cooldown is installed only while the session is
\* waiting: the callback that finds the cooldown over cancels the interval in
\* the step that leaves Waiting, so no later tick performs the transition a
\* second time.
C37_PollOnlyWhileWaiting ==
    waitInterval => waiting

\* the page after the poll has released it
C37_Released ==
    /\ ~waiting /\ ~waitInterval /\ ~cooldownSignal
    /\ view.editable /\ ~langDisabled

-----------------------------------------------------------------------------
(* Runtime boots *)

\* the boots of the Python runtime that have begun and not yet settled: one
\* for each start() and each reset() suspended in PythonRunner.init
BootsPending ==
    Cardinality({i \in 1..Len(starts) : starts[i].pc = "init"}) + Len(resets)

\* C38: a backend boots its runtime at most once in a page session: while a
\* boot is pending, no call of init (from start or from a language switch)
\* begins another, and none begins once the backend is initialised.
C38_OneBoot ==
    /\ BootsPending <= 1
    /\ initialized["python"] => BootsPending = 0

-----------------------------------------------------------------------------
(* Bootstrap: main() and getDatasetDownloadLink *)

MAX_ATTEMPTS == 80

\* the delay of the timeout that retries the lookup, in ms
RetryDelay == 100

MsgInitFailed == Line(<<"Failed to initialize editor: ", "message">>, "error")

\* main() at its first await: the loading overlay is shown, the layout is
\* built, the lookup of the dataset link is scheduled and no editor exists
InitBoot ==
    /\ loading = TRUE
    /\ attempts = 0
    /\ mainPc = "lookup"
    /\ elsewhere = Absent
    /\ dbLanguage = "none"
    /\ dbCode = [l \in Languages |-> "none"]
    /\ dbStart = NoTimestamp
    /\ record = Absent
    /\ now = 0
    /\ status = "loading"
    /\ overlay = FALSE
    /\ solvedSignal = FALSE
    /\ cooldownSignal = FALSE
    /\ waiting = FALSE
    /\ view = InitialView
    /\ output = <<>>
    /\ runBtn = Disabled
    /\ submitBtn = Disabled
    /\ startBtn = Enabled
    /\ langDisabled = FALSE
    /\ timerInterval = FALSE
    /\ liveTimers = 0
    /\ waitInterval = FALSE
    /\ dataset = FALSE
    /\ initialized = [l \in Languages |-> FALSE]
    /\ bound = [l \in Languages |-> Unbound]
    /\ console = Host
    /\ starts = <<>>
    /\ resets = <<>>
    /\ runs = <<>>
    /\ submitted = 0
    /\ payload = <<>>

\* the timeout callback of getDatasetDownloadLink: one lookup of the link and
\* of the properties element.  Found: the promise resolves and main() goes on
\* to build the editor and await its init.  Not found at the last attempt:
\* the promise rejects, and the await of main(), which is outside its try,
\* ends main() there.  Not found before: the lookup is retried after the delay.
downloadDataset ==
    /\ mainPc = "lookup"
    /\ attempts' = attempts + 1
    /\ \E found \in BOOLEAN :
        IF found
        THEN mainPc' = "init" /\ now' = now
        ELSE IF attempts' >= MAX_ATTEMPTS
        THEN mainPc' = "rejected" /\ now' = now
        ELSE mainPc' = "lookup" /\ now' = now + RetryDelay
    /\ UNCHANGED <<storeVars, surfaceVars, solvedSignal, cooldownSignal,
                   waiting, view, output, buttonVars, timerVars,
                   waitInterval, dataset, runnerVars, asyncVars, submitted,
                   payload, loading, elsewhere>>

\* Editor.init settles and main() runs its try to the end: init ends with the
\* surface loaded, or with its own catch (status "error"), or something in the
\* try throws and the catch of main() logs it; the finally hides the overlay
EditorInit ==
    /\ mainPc = "init"
    /\ \E outcome \in {"ready", "error", "throws"} :
        /\ status' = IF outcome = "ready" THEN "ready" ELSE "error"
        /\ output' = IF outcome = "throws"
                      THEN AddOutput(output, MsgInitFailed.text, MsgInitFailed.type)
                      ELSE output
    /\ loading' = FALSE
    /\ mainPc' = "done"
    /\ UNCHANGED <<storeVars, overlay, envVars, waiting, view, buttonVars,
                   timerVars, waitInterval, dataset, runnerVars, asyncVars,
                   submitted, payload, attempts, elsewhere>>

NextBoot == downloadDataset \/ EditorInit

SpecBoot == InitBoot /\ [][NextBoot]_vars

\* a timeout that is set fires and a load that is awaited settles
FairBoot == SpecBoot /\ WF_vars(downloadDataset) /\ WF_vars(EditorInit)

\* C39: on every path of the bootstrap the full-page loading overlay is
\* eventually hidden, also when the dataset link never appears (the lookup
\* gives up after 80 attempts, 100 ms apart) and when the initialisation of
\* the editor throws.
C39_OverlayHidden == <>(~loading)

-----------------------------------------------------------------------------
(* What a save leaves alone *)

\* one path begins with the other
Related(p, q) ==
    \A i \in 1..(IF Len(p) < Len(q) THEN Len(p) ELSE Len(q)) : p[i] = q[i]

\* C40: DB.save(p, v) changes the item of the current problem at the path p
\* and nowhere else: what DB.get returns for every path that neither begins
\* with p nor is a beginning of p is what it returned before, and the items of
\* other problems are the ones they were.
C40_SaveLocal ==
    \A key \in Paths, value \in Values, setItemThrows \in BOOLEAN :
        LET after == Saved(localStorage, key, value, setItemThrows)
        IN  /\ after[otherKey] = elsewhere
            /\ \A q \in Paths :
                   ~Related(key, q) => get(after[rootKey], q) = get(record, q)

\* a save at one path has left the value saved at another path in place,
\* beside the item of another problem
C40_SiblingKept ==
    /\ record = JObj(SetField(SetField(Empty, "CODE", JPrim("a")), "python", JPrim("b")))
    /\ elsewhere # Absent
====
